---- MODULE Spec2Model ----
(***************************************************************************)
(* State-machine model of src/al_framework.py: the WelcomeWindow (choice   *)
(* of the uncurated and the curated folder), the MainWindow (item          *)
(* selection, launch of the napari viewer, run_inference) and the          *)
(* NapariWindow ("Add to training data"), acting on a file system of two   *)
(* directories.                                                            *)
(*                                                                         *)
(* A file name is a record [base, segs, suffix]: the text                  *)
(* base ++ "_seg" * segs ++ suffix, so that Path(name).stem, the           *)
(* concatenation stem+'_seg.tiff' and the substring tests of the code are  *)
(* computed rather than assumed.  A file's content is an array             *)
(* [shape, tag]: its numpy shape and a tag that tells arrays apart (the    *)
(* directory an image started in; "file", "model" or "user" for labels).   *)
(***************************************************************************)
EXTENDS Integers, Sequences, FiniteSets, TLC

VARIABLES
    fs,               \* directory |-> (file name |-> array): the disk
    filename_val,     \* WelcomeWindow.filename_val
    filename_train,   \* WelcomeWindow.filename_train
    val_textbox,      \* WelcomeWindow.val_textbox text
    train_textbox,    \* WelcomeWindow.train_textbox text
    welcome_visible,  \* the welcome window is shown
    mw,               \* <<>> or <<MainWindow record>> (WelcomeWindow.mw)
    nap_win,          \* <<>> or <<NapariWindow record>> (MainWindow.nap_win)
    inf,              \* the locals of the run_inference that left by sys.exit
    app,              \* "running", "exited" (sys.exit) or "aborted" (uncaught exception)
    last              \* how the last handler ended, "-" for one that only returns

vars == <<fs, filename_val, filename_train, val_textbox, train_textbox,
          welcome_visible, mw, nap_win, inf, app, last>>

-----------------------------------------------------------------------------
(* Bounds and program constants                                            *)

\* the number of labels layers a user may hold in one viewer
MaxLayers == 2

\* the longest side run_inference rescales to
TargetSide == 512

\* the directories a file dialog can return
Dirs == {"d1", "d2"}

accepted_types == {".jpg", ".jpeg", ".png", ".tiff", ".tif"}

-----------------------------------------------------------------------------
(* File names                                                              *)

Name(b, k, sfx) == [base |-> b, segs |-> k, suffix |-> sfx]

\* the empty name: cur_selected_img before any click (falsy, like None)
NoItem == Name("", 0, "")

\* Path(file).suffix
Suffix(n) == n.suffix

\* Path(img_filename).stem + '_seg.tiff'
SegName(n) == Name(n.base, n.segs + 1, ".tiff")

\* '_seg' in img_filename
ContainsSeg(n) == n.segs >= 1

\* '_seg.tiff' in self.cur_selected_img
ContainsSegTiff(n) == n.segs >= 1 /\ n.suffix = ".tiff"

\* os.path.exists(os.path.join(dir, name))
Exists(disk, d, n) == n \in DOMAIN disk[d]

\* the disk after writing array c to dir/name (imsave, the target of os.replace)
WriteFile(disk, d, n, c) ==
    [disk EXCEPT ![d] = [x \in (DOMAIN disk[d]) \cup {n} |->
                            IF x = n THEN c ELSE disk[d][x]]]

\* the disk after os.remove(dir/name)
RemoveFile(disk, d, n) ==
    [disk EXCEPT ![d] = [x \in (DOMAIN disk[d]) \ {n} |-> disk[d][x]]]

\* ReplaceFile with the bug of copying: the source file is left in place
ReplaceFile_Copy(disk, sd, dd, n) == WriteFile(disk, dd, n, disk[sd][n])

\* os.replace(src_dir/name, dst_dir/name): the source must exist
ReplaceFile(disk, sd, dd, n) ==
    IF sd = dd THEN disk
    ELSE RemoveFile(WriteFile(disk, dd, n, disk[sd][n]), sd, n)

-----------------------------------------------------------------------------
(* Arrays and the image-processing calls of run_inference                 *)

Array(s, t) == [shape |-> s, tag |-> t]

Max(a, b) == IF a >= b THEN a ELSE b

\* np.round(n / d): to the nearest integer, a half to the even one
RoundDiv(n, d) ==
    LET q == n \div d
        r == n % d
    IN  IF 2 * r < d THEN q
        ELSE IF 2 * r > d THEN q + 1
        ELSE IF q % 2 = 0 THEN q ELSE q + 1

\* the shape of rescale(img, 1/rescale_factor) with rescale_factor =
\* max_dim/512: every axis is scaled (none is declared a channel axis) but
\* those in keep (channel_axis), and no axis falls below 1
Rescale(shape, max_dim, keep) ==
    [i \in 1..Len(shape) |->
        IF i \in keep THEN shape[i]
        ELSE Max(RoundDiv(shape[i] * TargetSide, max_dim), 1)]

\* the shape of the mask of model.eval(img): one label per pixel, the
\* trailing channel axis of a 3- or 4-dimensional input dropped
Eval(shape) ==
    IF Len(shape) <= 2 THEN shape ELSE SubSeq(shape, 1, Len(shape) - 1)

\* the shape of the mask of model.eval(img, z_axis=0): one label per voxel
EvalStack(shape) == shape

\* the shape of resize(mask, output_shape, order=0): output_shape, followed
\* by the mask's last axis when the mask has one axis more
Resize(mask_shape, output_shape) ==
    IF Len(mask_shape) = Len(output_shape) + 1
    THEN Append(output_shape, mask_shape[Len(mask_shape)])
    ELSE output_shape

\* the branch of run_inference an image takes, from its suffix and shape
Strategy(n, orig_size) ==
    IF \/ Suffix(n) \in {".jpg", ".jpeg", ".png"}
       \/ (Suffix(n) \in {".tiff", ".tif"} /\ Len(orig_size) = 2)
       \/ (Len(orig_size) = 3 /\ (orig_size[Len(orig_size)] = 3
                                  \/ orig_size[Len(orig_size)] = 4))
    THEN "2D"
    ELSE IF Suffix(n) \in {".tiff", ".tif"} /\ Len(orig_size) = 3
    THEN "3D"
    ELSE "unsupported"

\* the mask of the 2D branch
Mask2D(orig_size) ==
    LET height == orig_size[1]
        width == orig_size[2]
        max_dim == Max(height, width)
        img == Rescale(orig_size, max_dim, {})
        mask == Eval(img)
    IN  Array(Resize(mask, <<height, width>>), "model")

\* the mask of the 3D-stack branch
Mask3D(orig_size) ==
    LET height == orig_size[2]
        width == orig_size[3]
        max_dim == Max(height, width)
        img == Rescale(orig_size, max_dim, {1})
        mask == EvalStack(img)
    IN  Array(Resize(mask, <<orig_size[1], height, width>>), "model")

\* the mask run_inference computes for an image of a supported strategy
ComputeMask(n, orig_size) ==
    IF Strategy(n, orig_size) = "2D" THEN Mask2D(orig_size)
    ELSE Mask3D(orig_size)

-----------------------------------------------------------------------------
(* The initial disk                                                        *)

\* the image files a folder may hold at the start
ImageNames == {Name("a", 0, ".png"), Name("b", 0, ".tif")}

\* the shapes imread can return for a .png: RGB, and the stacked frames of
\* an animated PNG (frames, height, width, RGBA)
PngShapes == {<<600, 1024, 3>>, <<2, 600, 1024, 4>>}

\* the shapes imread can return for a .tif: grayscale, RGBA, a stack of
\* grayscale planes, a stack with channels
TifShapes == {<<600, 1024>>, <<600, 1024, 4>>, <<5, 600, 1024>>,
              <<2, 5, 600, 1024>>}

\* the shapes the images of folder d are drawn from at the start: all of
\* them in d1, the plain RGB and grayscale ones in d2
ShapesOf(d, n) ==
    IF Suffix(n) = ".png"
    THEN (IF d = "d1" THEN PngShapes ELSE {<<600, 1024, 3>>})
    ELSE (IF d = "d1" THEN TifShapes ELSE {<<600, 1024>>})

\* a mask file present at the start
InitMask == Array(<<600, 1024>>, "file")

\* the folders d can be at the start: some of the images, each of one of
\* its shapes and tagged with d, and masks for some of them
Folders(d) ==
    UNION { UNION { { [x \in S \cup {SegName(n) : n \in M} |->
                         IF x \in S THEN Array(sh[x], d) ELSE InitMask]
                      : sh \in {f \in [S -> PngShapes \cup TifShapes] :
                                   \A n \in S : f[n] \in ShapesOf(d, n)} }
                    : M \in SUBSET S }
            : S \in SUBSET ImageNames }

\* run_inference has returned, or has not run
IdleInference == [pc |-> "idle", img_filename |-> NoItem, orig_size |-> <<>>,
                  rest |-> <<>>]

Init ==
    /\ fs \in [Dirs -> UNION {Folders(d) : d \in Dirs}]
    /\ \A d \in Dirs : fs[d] \in Folders(d)
    /\ filename_val = ""
    /\ filename_train = ""
    /\ val_textbox = ""
    /\ train_textbox = ""
    /\ welcome_visible = TRUE
    /\ mw = <<>>
    /\ nap_win = <<>>
    /\ inf = IdleInference
    /\ app = "running"
    /\ last = "init"

-----------------------------------------------------------------------------
(* WelcomeWindow                                                           *)

\* the welcome window takes clicks
WelcomeActive == app = "running" /\ welcome_visible

\* browse_eval_clicked: the dialog is confirmed with a directory or cancelled
browse_eval_clicked ==
    /\ WelcomeActive
    /\ \E accepted \in BOOLEAN, dir \in Dirs :
          LET chosen == IF accepted THEN dir ELSE filename_val IN
          /\ filename_val' = chosen
          /\ val_textbox' = chosen
          /\ last' = IF accepted THEN "browse_eval:ok" ELSE "browse_eval:cancel"
    /\ UNCHANGED <<fs, filename_train, train_textbox, welcome_visible, mw,
                   nap_win, inf, app>>

\* browse_train_clicked
browse_train_clicked ==
    /\ WelcomeActive
    /\ \E accepted \in BOOLEAN, dir \in Dirs :
          LET chosen == IF accepted THEN dir ELSE filename_train IN
          /\ filename_train' = chosen
          /\ train_textbox' = chosen
          /\ last' = IF accepted THEN "browse_train:ok" ELSE "browse_train:cancel"
    /\ UNCHANGED <<fs, filename_val, val_textbox, welcome_visible, mw,
                   nap_win, inf, app>>

\* BothChosen with the bug of 'or' for 'and': one directory is enough
BothChosen_Either == filename_train # "" \/ filename_val # ""

\* the condition of start_main: both directories are chosen
BothChosen == filename_train # "" /\ filename_val # ""

\* MainWindow(eval_data_path, train_data_path), main_window included
NewMainWindow(eval_data_path, train_data_path) ==
    [eval_data_path |-> eval_data_path,
     train_data_path |-> train_data_path,
     cur_selected_img |-> NoItem]

\* start_main
start_main ==
    /\ WelcomeActive
    /\ IF BothChosen
       THEN /\ welcome_visible' = FALSE
            /\ mw' = <<NewMainWindow(filename_val, filename_train)>>
            /\ last' = "start:ok"
       ELSE /\ last' = "start:warning"
            /\ UNCHANGED <<welcome_visible, mw>>
    /\ UNCHANGED <<fs, filename_val, filename_train, val_textbox,
                   train_textbox, nap_win, inf, app>>

-----------------------------------------------------------------------------
(* MainWindow                                                              *)

\* the main window takes clicks
MainActive == app = "running" /\ mw # <<>>

eval_data_path == mw[1].eval_data_path

train_data_path == mw[1].train_data_path

cur_selected_img == mw[1].cur_selected_img

\* an exception no handler catches: the build either reports it and goes
\* on, or aborts the program
Uncaught == \E a \in {"running", "aborted"} : app' = a

\* item_eval_selected: a click on an entry of the uncurated list
item_eval_selected ==
    /\ MainActive
    /\ \E item \in DOMAIN fs[eval_data_path] :
          mw' = <<[mw[1] EXCEPT !.cur_selected_img = item]>>
    /\ last' = "-"
    /\ UNCHANGED <<fs, filename_val, filename_train, val_textbox,
                   train_textbox, welcome_visible, nap_win, inf, app>>

\* item_train_selected: a click on an entry of the curated list
item_train_selected ==
    /\ MainActive
    /\ \E item \in DOMAIN fs[train_data_path] :
          mw' = <<[mw[1] EXCEPT !.cur_selected_img = item]>>
    /\ last' = "-"
    /\ UNCHANGED <<fs, filename_val, filename_train, val_textbox,
                   train_textbox, welcome_visible, nap_win, inf, app>>

\* LaunchRefused with the bug of a missing mask test
LaunchRefused_UnselectedOnly(item) == item = NoItem

\* the guard of launch_napari_window: nothing selected, or a mask
LaunchRefused(item) == item = NoItem \/ ContainsSegTiff(item)

\* the folder NapariWindow.__init__ reads the image from
ImageFolder(img_filename, eval_dir, train_dir) ==
    IF Exists(fs, eval_dir, img_filename) THEN eval_dir ELSE train_dir

\* NapariWindow(img_filename, eval_data_path, train_data_path): the image,
\* and a labels layer when the image's folder holds its mask
NewNapariWindow(img_filename, eval_dir, train_dir) ==
    LET d == ImageFolder(img_filename, eval_dir, train_dir)
        potential_seg_name == SegName(img_filename)
    IN  [img_filename |-> img_filename,
         eval_data_path |-> eval_dir,
         train_data_path |-> train_dir,
         img |-> fs[d][img_filename],
         layers |-> IF Exists(fs, d, potential_seg_name)
                    THEN <<fs[d][potential_seg_name]>> ELSE <<>>,
         visible |-> TRUE]

\* launch_napari_window
launch_napari_window ==
    /\ MainActive
    /\ IF LaunchRefused(cur_selected_img)
       THEN /\ last' = "launch:warning"
            /\ UNCHANGED <<nap_win, app>>
       ELSE IF Exists(fs, ImageFolder(cur_selected_img, eval_data_path,
                                      train_data_path), cur_selected_img)
       THEN /\ nap_win' = <<NewNapariWindow(cur_selected_img, eval_data_path,
                                           train_data_path)>>
            /\ last' = "launch:ok"
            /\ UNCHANGED app
       ELSE \* imread finds no file
            /\ last' = "launch:error"
            /\ Uncaught
            /\ UNCHANGED nap_win
    /\ UNCHANGED <<fs, filename_val, filename_train, val_textbox,
                   train_textbox, welcome_visible, mw, inf>>

\* train_model
train_model ==
    /\ MainActive
    /\ last' = "-"
    /\ UNCHANGED <<fs, filename_val, filename_train, val_textbox,
                   train_textbox, welcome_visible, mw, nap_win, inf, app>>

-----------------------------------------------------------------------------
(* run_inference                                                           *)

\* the orders os.listdir can give the entries of a set of files in
RECURSIVE Orders(_)
Orders(S) ==
    IF S = {} THEN {<<>>}
    ELSE UNION {{<<x>> \o o : o \in Orders(S \ {x})} : x \in S}

\* Skipped with the bug of passing over an image that has a mask file
Skipped_Labelled(img_filename) ==
    \/ ContainsSeg(img_filename)
    \/ Exists(fs, eval_data_path, SegName(img_filename))

\* an entry is skipped by the loop: its name says it is a segmentation
Skipped(img_filename) == ContainsSeg(img_filename)

\* list_files: the entries of the uncurated folder of an accepted suffix.
\* os.listdir gives them in any order; the loop passes over a skipped entry
\* wherever it stands, so the skipped entries are put first, in one order,
\* and the order of the others is drawn
ListFiles(d) ==
    LET accepted == {file \in DOMAIN fs[d] : Suffix(file) \in accepted_types}
        skipped == {file \in accepted : Skipped(file)}
        first == CHOOSE o \in Orders(skipped) : TRUE
    IN  {first \o o : o \in Orders(accepted \ skipped)}

\* SaveMask with the bug of the image's suffix in seg_name:
\* stem + '_seg' + suffix
SaveMask_KeepSuffix(disk, d, img_filename, mask) ==
    WriteFile(disk, d, Name(img_filename.base, img_filename.segs + 1,
                            img_filename.suffix), mask)

\* the disk after imsave(os.path.join(eval_data_path, seg_name), mask)
SaveMask(disk, d, img_filename, mask) ==
    WriteFile(disk, d, SegName(img_filename), mask)

\* model.eval raises on the image: a build of the segmentation library
\* either takes an array of more than three axes, or refuses it
EvalRaises(orig_size, takes_4d) == Len(orig_size) > 3 /\ ~takes_4d

\* the loop of run_inference over list_files on disk: the disk it leaves,
\* whether it ended ("done"), left by sys.exit ("exit") or by an exception
\* of model.eval ("error"), and then the image it left at and the entries
\* it did not reach
RECURSIVE RunLoop(_, _, _, _)
RunLoop(disk, d, list_files, takes_4d) ==
    IF list_files = <<>>
    THEN [fs |-> disk, pc |-> "done", img_filename |-> NoItem,
          orig_size |-> <<>>, rest |-> <<>>]
    ELSE LET img_filename == Head(list_files)
             orig_size == disk[d][img_filename].shape
             left(pc) == [fs |-> disk, pc |-> pc,
                          img_filename |-> img_filename,
                          orig_size |-> orig_size,
                          rest |-> Tail(list_files)]
         IN  IF Skipped(img_filename)
             THEN RunLoop(disk, d, Tail(list_files), takes_4d)
             ELSE IF Strategy(img_filename, orig_size) = "unsupported"
             THEN left("exit")
             ELSE IF EvalRaises(orig_size, takes_4d)
             THEN left("error")
             ELSE RunLoop(SaveMask(disk, d, img_filename,
                                   ComputeMask(img_filename, orig_size)),
                          d, Tail(list_files), takes_4d)

\* run_inference: it returns, or prints 'Image type not supported' and
\* exits the program, or an exception of model.eval ends it
run_inference ==
    /\ MainActive
    /\ \E list_files \in ListFiles(eval_data_path), takes_4d \in BOOLEAN :
          LET r == RunLoop(fs, eval_data_path, list_files, takes_4d) IN
          /\ fs' = r.fs
          /\ IF r.pc = "done"
             THEN /\ inf' = IdleInference
                  /\ last' = "run_inference:done"
                  /\ UNCHANGED app
             ELSE IF r.pc = "exit"
             THEN /\ inf' = [pc |-> r.pc, img_filename |-> r.img_filename,
                             orig_size |-> r.orig_size, rest |-> r.rest]
                  /\ last' = "run_inference:exit"
                  /\ app' = "exited"
             ELSE /\ inf' = IdleInference
                  /\ last' = "run_inference:error"
                  /\ Uncaught
    /\ UNCHANGED <<filename_val, filename_train, val_textbox, train_textbox,
                   welcome_visible, mw, nap_win>>

-----------------------------------------------------------------------------
(* NapariWindow                                                            *)

\* the viewer window takes clicks
ViewerActive == MainActive /\ nap_win # <<>> /\ nap_win[1].visible

\* the user adds an empty labels layer in the viewer
viewer_new_labels ==
    /\ ViewerActive
    /\ Len(nap_win[1].layers) < MaxLayers
    /\ nap_win' = <<[nap_win[1] EXCEPT
                       !.layers = Append(@, Array(nap_win[1].img.shape, "user"))]>>
    /\ last' = "-"
    /\ UNCHANGED <<fs, filename_val, filename_train, val_textbox,
                   train_textbox, welcome_visible, mw, inf, app>>

\* the user paints on a labels layer of the viewer
viewer_paint ==
    /\ ViewerActive
    /\ \E i \in 1..Len(nap_win[1].layers) :
          nap_win' = <<[nap_win[1] EXCEPT !.layers[i].tag = "user"]>>
    /\ last' = "-"
    /\ UNCHANGED <<fs, filename_val, filename_train, val_textbox,
                   train_textbox, welcome_visible, mw, inf, app>>

\* _get_layer_names: the labels layers of the viewer, in order
LayerNames(w) == DOMAIN w.layers

\* AddToTraining with the bug of leaving the old mask file in place
AddToTraining_KeepOldMask(w, seg) ==
    WriteFile(ReplaceFile(fs, w.eval_data_path, w.train_data_path,
                          w.img_filename),
              w.train_data_path, SegName(w.img_filename), seg)

\* the disk after the file operations of on_add_button_clicked
AddToTraining(w, seg) ==
    LET seg_name == SegName(w.img_filename)
        moved == ReplaceFile(fs, w.eval_data_path, w.train_data_path,
                             w.img_filename)
        saved == WriteFile(moved, w.train_data_path, seg_name, seg)
    IN  IF Exists(saved, w.eval_data_path, seg_name)
        THEN RemoveFile(saved, w.eval_data_path, seg_name)
        ELSE saved

\* on_add_button_clicked
on_add_button_clicked ==
    /\ ViewerActive
    /\ LET w == nap_win[1] IN
       IF LayerNames(w) = {}
       THEN \* label_names[0]: IndexError
            /\ last' = "add:IndexError"
            /\ Uncaught
            /\ UNCHANGED <<fs, nap_win>>
       ELSE IF ~Exists(fs, w.eval_data_path, w.img_filename)
       THEN \* os.replace: FileNotFoundError
            /\ last' = "add:FileNotFoundError"
            /\ Uncaught
            /\ UNCHANGED <<fs, nap_win>>
       ELSE /\ fs' = AddToTraining(w, w.layers[1])
            /\ nap_win' = <<[w EXCEPT !.visible = FALSE]>>
            /\ last' = "add:ok"
            /\ UNCHANGED app
    /\ UNCHANGED <<filename_val, filename_train, val_textbox, train_textbox,
                   welcome_visible, mw, inf>>

-----------------------------------------------------------------------------

Next ==
    \/ browse_eval_clicked
    \/ browse_train_clicked
    \/ start_main
    \/ item_eval_selected
    \/ item_train_selected
    \/ launch_napari_window
    \/ train_model
    \/ run_inference
    \/ viewer_new_labels
    \/ viewer_paint
    \/ on_add_button_clicked

Spec == Init /\ [][Next]_vars

-----------------------------------------------------------------------------
(* Vocabulary of the properties                                            *)

\* an image file by its name: an accepted suffix and no '_seg'
IsImage(n) == n.suffix \in accepted_types /\ n.segs = 0

\* a mask file by its name: <stem>_seg.tiff
IsMask(n) == n.segs >= 1 /\ n.suffix = ".tiff"

\* the mask file name of an image: <stem of the image>_seg.tiff
MaskOf(n) == Name(n.base, n.segs + 1, ".tiff")

\* the handler of the step was run_inference
InferenceStep ==
    last' \in {"run_inference:done", "run_inference:exit", "run_inference:error"}

\* height and width of an image array: the two axes before the channels,
\* after the frames of an animated image
HeightWidth(shape) ==
    IF Len(shape) = 4 THEN <<shape[2], shape[3]>> ELSE <<shape[1], shape[2]>>

\* every mask file of folder d lies beside an image of its stem
PairedIn(d) ==
    \A m \in DOMAIN fs[d] :
        IsMask(m) => \E n \in DOMAIN fs[d] : n # m /\ MaskOf(n) = m

-----------------------------------------------------------------------------
(* C1: when run_inference has run to completion, every file of the         *)
(* uncurated folder with an accepted suffix and no '_seg' in its name has  *)
(* a mask file <stem>_seg.tiff in the uncurated folder.                    *)
C1_MaskForEveryImage ==
    last = "run_inference:done" =>
        \A n \in DOMAIN fs[eval_data_path] :
            IsImage(n) => MaskOf(n) \in DOMAIN fs[eval_data_path]

\* a run has completed and has written the mask of an image
C1_Witness ==
    /\ last = "run_inference:done"
    /\ \E n \in DOMAIN fs[eval_data_path] :
          /\ IsImage(n)
          /\ MaskOf(n) \in DOMAIN fs[eval_data_path]
          /\ fs[eval_data_path][MaskOf(n)].tag = "model"

(* C2: when 'Add to training data' completes for an image of the uncurated *)
(* folder whose viewer has a labels layer, the image is in the curated     *)
(* folder and not in the uncurated one, <stem>_seg.tiff is in the curated  *)
(* folder and holds the data of the viewer's first labels layer, and no    *)
(* <stem>_seg.tiff is left in the uncurated folder.                        *)
C2_PairMoved ==
    last = "add:ok" =>
        LET w == nap_win[1]
            n == w.img_filename
        IN  /\ n \in DOMAIN fs[train_data_path]
            /\ n \notin DOMAIN fs[eval_data_path]
            /\ MaskOf(n) \in DOMAIN fs[train_data_path]
            /\ fs[train_data_path][MaskOf(n)] = w.layers[1]
            /\ MaskOf(n) \notin DOMAIN fs[eval_data_path]

(* C3: every mask run_inference saves has the resolution of its source     *)
(* image: (height, width) for an image of the 2D strategy, (stack depth,   *)
(* height, width) for one of the 3D-stack strategy.                        *)
C3_OriginalResolution ==
    last = "run_inference:done" =>
        \A n \in DOMAIN fs[eval_data_path] :
            IsImage(n) =>
                LET shape == fs[eval_data_path][n].shape
                    mask == fs[eval_data_path][MaskOf(n)].shape
                IN  IF Strategy(n, shape) = "3D"
                    THEN mask = <<shape[1], shape[2], shape[3]>>
                    ELSE mask = HeightWidth(shape)

C5_UnsupportedShapeExits ==
    [][InferenceStep =>
          /\ (\E n \in DOMAIN fs[eval_data_path] :
                 IsImage(n) /\ Len(fs[eval_data_path][n].shape) \notin {2, 3})
             => (last' = "run_inference:exit" /\ app' = "exited")
          /\ last' = "run_inference:exit" =>
                /\ Len(inf'.orig_size) \notin {2, 3}
                /\ \A n \in {inf'.img_filename} \cup
                            {inf'.rest[i] : i \in 1..Len(inf'.rest)} :
                      IsImage(n) =>
                         IF MaskOf(n) \in DOMAIN fs[eval_data_path]
                         THEN /\ MaskOf(n) \in DOMAIN fs'[eval_data_path]
                              /\ fs'[eval_data_path][MaskOf(n)]
                                    = fs[eval_data_path][MaskOf(n)]
                         ELSE MaskOf(n) \notin DOMAIN fs'[eval_data_path]
                /\ \A m \in DOMAIN fs'[eval_data_path] :
                      fs'[eval_data_path][m].tag = "model" =>
                         \E n \in DOMAIN fs'[eval_data_path] :
                            IsImage(n) /\ MaskOf(n) = m
      ]_vars

C6_StartNeedsBothFolders ==
    [][/\ last' \in {"start:ok", "start:warning"} =>
             IF filename_val # "" /\ filename_train # ""
             THEN /\ last' = "start:ok"
                  /\ mw' # <<>>
                  /\ mw'[1].eval_data_path = filename_val
                  /\ mw'[1].train_data_path = filename_train
                  /\ ~welcome_visible'
             ELSE /\ last' = "start:warning"
                  /\ welcome_visible'
                  /\ mw' = <<>>
       /\ (mw = <<>> /\ mw' # <<>>) => last' = "start:ok"
       /\ last' \in {"browse_eval:cancel", "browse_train:cancel"} =>
             /\ filename_val' = filename_val
             /\ filename_train' = filename_train
       /\ last' = "browse_eval:ok" =>
             (filename_val' \in Dirs /\ filename_train' = filename_train)
       /\ last' = "browse_train:ok" =>
             (filename_train' \in Dirs /\ filename_val' = filename_val)
      ]_vars

\* Start has opened the main window on the two chosen folders
C6_Witness ==
    /\ last = "start:ok"
    /\ mw # <<>>
    /\ ~welcome_visible
    /\ eval_data_path = filename_val
    /\ train_data_path = filename_train

(* C7: launch_napari_window opens the viewer only for an original image:   *)
(* with nothing selected yet, or a selected name containing '_seg.tiff',   *)
(* it shows the warning and creates no NapariWindow; in every other case   *)
(* it creates a NapariWindow for the item clicked last, in the uncurated   *)
(* or the curated list.                                                    *)
C7_ViewerOnlyForImages ==
    [][/\ last' \in {"launch:ok", "launch:warning", "launch:error"} =>
             LET item == mw[1].cur_selected_img IN
             IF item = NoItem \/ (item.segs >= 1 /\ item.suffix = ".tiff")
             THEN /\ last' = "launch:warning"
                  /\ nap_win' = nap_win
             ELSE /\ last' = "launch:ok"
                  /\ nap_win' # <<>>
                  /\ nap_win'[1].img_filename = item
                  /\ nap_win'[1].visible
       /\ (mw # <<>> /\ mw' # mw) =>
             /\ last' = "-"
             /\ mw'[1].cur_selected_img \in
                   DOMAIN fs[eval_data_path] \cup DOMAIN fs[train_data_path]
       /\ nap_win' # <<>> => ~IsMask(nap_win'[1].img_filename)
      ]_vars

\* the viewer has been opened for an image clicked in the curated list
C7_Witness ==
    /\ last = "launch:ok"
    /\ nap_win[1].visible
    /\ nap_win[1].img_filename = cur_selected_img
    /\ nap_win[1].img_filename \notin DOMAIN fs[eval_data_path]
    /\ nap_win[1].img_filename \in DOMAIN fs[train_data_path]

(* C8: from folders in which every mask file lies beside an image of its   *)
(* stem (the folders Init draws), after any run_inference runs and 'Add    *)
(* to training data' clicks, failed ones included, every mask file of the  *)
(* uncurated or the curated folder lies beside an image of its stem.       *)
C8_MasksPaired == \A d \in Dirs : PairedIn(d)

\* a click on 'Add to training data' has failed after masks were generated
\* and a pair was moved
C8_Witness ==
    /\ last \in {"add:IndexError", "add:FileNotFoundError"}
    /\ eval_data_path # train_data_path
    /\ \E m \in DOMAIN fs[train_data_path] : IsMask(m)
    /\ \E m \in DOMAIN fs[eval_data_path] :
          IsMask(m) /\ fs[eval_data_path][m].tag = "model"

\* the image files of folder d, on disk
ImagesIn(disk, d) == {n \in DOMAIN disk[d] : IsImage(n)}

\* no image file name is present in both folders
NoSharedImage(disk) ==
    \A n \in ImagesIn(disk, eval_data_path) : n \notin DOMAIN disk[train_data_path]

(* C9: from two folders with no image file name in both, no image file is  *)
(* lost or duplicated: after any step every image file is in exactly one   *)
(* of the folders, with its content, it changes folder only from the       *)
(* uncurated to the curated one, and run_inference neither creates,        *)
(* deletes or overwrites an image file nor touches the curated folder.     *)
C9_ImagesConserved ==
    [][(mw # <<>> /\ NoSharedImage(fs)) =>
          /\ NoSharedImage(fs')
          /\ \A d \in {eval_data_path, train_data_path} :
                \A n \in ImagesIn(fs, d) :
                   \E e \in {eval_data_path, train_data_path} :
                      /\ n \in DOMAIN fs'[e]
                      /\ fs'[e][n] = fs[d][n]
                      /\ e # d => (d = eval_data_path /\ e = train_data_path)
          /\ \A d \in {eval_data_path, train_data_path} :
                \A n \in ImagesIn(fs', d) :
                   n \in DOMAIN fs[eval_data_path] \cup DOMAIN fs[train_data_path]
          /\ InferenceStep =>
                /\ fs'[train_data_path] = fs[train_data_path]
                /\ \A n \in DOMAIN fs[eval_data_path] \cup DOMAIN fs'[eval_data_path] :
                      IsImage(n) =>
                         /\ n \in DOMAIN fs[eval_data_path]
                         /\ n \in DOMAIN fs'[eval_data_path]
                         /\ fs'[eval_data_path][n] = fs[eval_data_path][n]
      ]_vars

\* an image has moved to a curated folder that held another image
C9_Witness ==
    /\ last = "add:ok"
    /\ eval_data_path # train_data_path
    /\ NoSharedImage(fs)
    /\ \E n \in ImagesIn(fs, train_data_path) :
          fs[train_data_path][n].tag = eval_data_path
    /\ \E n \in ImagesIn(fs, train_data_path) :
          fs[train_data_path][n].tag = train_data_path

====
